---- MODULE Spec2Model ----
(***************************************************************************)
(* rtlog-cpp: the realtime logger (rtlog::Logger) on top of a bounded      *)
(* single-producer/single-consumer ring buffer, and the background         *)
(* LogProcessingThread that drains it.                                     *)
(*                                                                         *)
(* One producer context runs Log / LogFmt, one consumer context runs       *)
(* PrintAndClearLogQueue, either called directly (Spec) or from            *)
(* LogProcessingThread::ThreadMain (SpecThread).  Every access to the      *)
(* shared ring buffer (an index load, a slot copy, an index store) is a    *)
(* step of its own, so that every interleaving of the two contexts is      *)
(* explored.                                                               *)
(***************************************************************************)
EXTENDS Naturals, Sequences, FiniteSets

(* ------------------------------ bounds -------------------------------- *)

\* Template parameter MaxNumMessages: capacity of the queue.
MaxNumMessages == 2

\* Template parameter MaxMessageLength: size of mMessage, terminator included.
MaxMessageLength == 3

\* Number of Log / LogFmt calls the producer makes in one behaviour.
MaxLogCalls == 3

(* --------------------------- value domains ---------------------------- *)

\* enum class Status
Success == "Success"
Error_QueueFull == "Error_QueueFull"
Error_MessageTruncated == "Error_MessageTruncated"

\* The formatted text of length n: its i-th character is i (never the terminator 0).
Text(n) == [i \in 1..n |-> i]

\* What the producer logs: a LogData value and the length of the formatted text.
\* The lengths are one that leaves room, the exact fit, one too long and two too
\* long.
LogInputs ==
    {in \in {[inputData |-> "Info", n |-> MaxMessageLength - 2],
             [inputData |-> "Debug", n |-> MaxMessageLength - 1],
             [inputData |-> "Info", n |-> MaxMessageLength],
             [inputData |-> "Debug", n |-> MaxMessageLength + 1]} : in.n >= 0}

Min(a, b) == IF a <= b THEN a ELSE b

\* Storage that holds no constructed InternalLogData.
NoRecord == [mLogData |-> "none", mSequenceNumber |-> 0, mMessage |-> <<>>]

\* InternalLogData{}: value-initialised members.
InternalLogData ==
    [mLogData |-> "Debug", mSequenceNumber |-> 0,
     mMessage |-> [i \in 1..MaxMessageLength |-> 0]]

\* What a C string pointer to the array denotes: the characters before the
\* first terminator.
RECURSIVE CStrFrom(_, _)
CStrFrom(a, i) ==
    IF i > Len(a) \/ a[i] = 0 THEN <<>> ELSE <<a[i]>> \o CStrFrom(a, i + 1)

CStr(a) == CStrFrom(a, 1)

(* ----------------------------- formatting ----------------------------- *)

\* A vsnprintf that returns the number of characters it stored.
stbsp_vsnprintf_ReturnsStored(buf, count, text) ==
    LET l == Min(Len(text), count - 1)
    IN  [buf |-> [i \in 1..Len(buf) |->
                    IF i <= l THEN text[i] ELSE IF i = l + 1 THEN 0 ELSE buf[i]],
         charsPrinted |-> l]

\* stbsp_vsnprintf( buf, count, fmt, args ): copies at most count - 1 characters
\* of the formatted text, terminates, and returns the full formatted length.
stbsp_vsnprintf(buf, count, text) ==
    LET l == Min(Len(text), count - 1)
    IN  [buf |-> [i \in 1..Len(buf) |->
                    IF i <= l THEN text[i] ELSE IF i = l + 1 THEN 0 ELSE buf[i]],
         charsPrinted |-> Len(text)]

\* fmt::format_to_n( out, n, ... ): writes at most n characters, no terminator,
\* and reports the full formatted length in result.size.
format_to_n(buf, n, text) ==
    LET l == Min(Len(text), n)
    IN  [buf |-> [i \in 1..Len(buf) |-> IF i <= l THEN text[i] ELSE buf[i]],
         size |-> Len(text)]

\* A truncation test that misses the text one character too long.
LogTruncated_OffByOne(charsPrinted, size) == charsPrinted < 0 \/ charsPrinted > size

\* Logger::Log, the truncation test on charsPrinted (never negative here).
LogTruncated(charsPrinted, size) == charsPrinted < 0 \/ charsPrinted >= size

\* A Log that leaves the record's mLogData as constructed.
LogFormat_LogDataDropped(inputData, text, seq) ==
    LET r == stbsp_vsnprintf(InternalLogData.mMessage, MaxMessageLength, text)
    IN  [data |-> [mLogData |-> InternalLogData.mLogData, mSequenceNumber |-> seq,
                   mMessage |-> r.buf],
         retVal |-> IF LogTruncated(r.charsPrinted, MaxMessageLength)
                    THEN Error_MessageTruncated ELSE Success]

\* Logger::Log up to the push: the record built on the stack and retVal.
LogFormat(inputData, text, seq) ==
    LET r == stbsp_vsnprintf(InternalLogData.mMessage, MaxMessageLength, text)
    IN  [data |-> [mLogData |-> inputData, mSequenceNumber |-> seq,
                   mMessage |-> r.buf],
         retVal |-> IF LogTruncated(r.charsPrinted, MaxMessageLength)
                    THEN Error_MessageTruncated ELSE Success]

\* Logger::LogFmt up to the enqueue: format_to_n into size - 1 characters, then
\* the terminator is stored by hand.
LogFmtFormat(inputData, text, seq) ==
    LET maxMessageLength == MaxMessageLength - 1
        r == format_to_n(InternalLogData.mMessage, maxMessageLength, text)
        trunc == r.size >= MaxMessageLength
        at == IF trunc THEN MaxMessageLength ELSE r.size + 1
    IN  [data |-> [mLogData |-> inputData, mSequenceNumber |-> seq,
                   mMessage |-> [r.buf EXCEPT ![at] = 0]],
         retVal |-> IF trunc THEN Error_MessageTruncated ELSE Success]

\* A return value where the truncation report hides the failed push.
LogStatus_TruncationWins(retVal, dataWasEnqueued) ==
    IF retVal = Error_MessageTruncated THEN retVal
    ELSE IF ~dataWasEnqueued THEN Error_QueueFull ELSE retVal

\* Logger::Log / LogFmt after the push: a failed push overrides retVal.
LogStatus(retVal, dataWasEnqueued) ==
    IF ~dataWasEnqueued THEN Error_QueueFull ELSE retVal

(* ------------------------------- state -------------------------------- *)

VARIABLES
    SequenceNumber,   \* the shared std::atomic<size_t> counter
    buffer,           \* the ring's slots, 0 .. MaxNumMessages
    write_index,      \* spsc_queue write index (producer stores)
    read_index,       \* spsc_queue read index (consumer stores)
    pPc,              \* producer: "idle", "push", "write", "publish"
    cur,              \* producer locals of the call in flight
    cPc,              \* consumer: "idle", "pop", "read", "advance", "sink", "done"
    value,            \* PrintAndClearLogQueue's local `value`
    numProcessed,     \* PrintAndClearLogQueue's local counter
    tPc,              \* LogProcessingThread::ThreadMain position
    mShouldRun,       \* LogProcessingThread::mShouldRun
    sink,             \* history: what printLogFn was called with, in order
    calls,            \* history: the finished Log / LogFmt calls, in order
    curDrain,         \* history: the state when the running drain was called
    stopped,          \* history: the first Stop() call
    iter,             \* history: drains and sleeps of ThreadMain's current iteration
    dPc               \* ~LogProcessingThread: "alive", "joining", "destroyed"

vars == <<SequenceNumber, buffer, write_index, read_index, pPc, cur, cPc, value,
          numProcessed, tPc, mShouldRun, sink, calls, curDrain, stopped, iter,
          dPc>>

producerVars == <<SequenceNumber, buffer, write_index, pPc, cur, calls>>
consumerVars == <<read_index, cPc, value, numProcessed, sink>>
threadVars == <<tPc, mShouldRun, stopped, iter, dPc>>

\* The ring holds max_size = element_count + 1 slots (one is always free).
max_size == MaxNumMessages + 1

next_index(i) == (i + 1) % max_size

NoCall == [data |-> NoRecord, retVal |-> Success, inputData |-> "none", text |-> <<>>]

NoDrain == [calls0 |-> 0, queued0 |-> 0, sink0 |-> 0, seq0 |-> 0,
            read0 |-> 0, write0 |-> 0, clean |-> TRUE]

NoStop == [called |-> FALSE, pushed |-> 0, looped |-> FALSE]

NoIter == [drains |-> 0, sleeps |-> 0, found |-> FALSE]

\* Number of records the queue holds (spsc_queue::read_available).
read_available == (write_index + max_size - read_index) % max_size

\* The queue's contents, oldest first.
QueueContents ==
    [k \in 1..read_available |-> buffer[(read_index + k - 1) % max_size]]

\* The records whose push succeeded, in push order.
Pushed ==
    LET ok == SelectSeq(calls, LAMBDA c : c.enqueued)
    IN  [k \in 1..Len(ok) |-> ok[k].data]

\* printLogFn( value.mLogData, value.mSequenceNumber, "%s", value.mMessage.data() )
SinkArgs(rec) ==
    [mLogData |-> rec.mLogData, mSequenceNumber |-> rec.mSequenceNumber,
     text |-> CStr(rec.mMessage)]

(* ------------------------------- Init --------------------------------- *)

InitLogger ==
    /\ SequenceNumber = 0
    /\ buffer = [i \in 0..MaxNumMessages |-> NoRecord]
    /\ write_index = 0
    /\ read_index = 0
    /\ pPc = "idle"
    /\ cur = NoCall
    /\ cPc = "idle"
    /\ value = InternalLogData
    /\ numProcessed = 0
    /\ sink = <<>>
    /\ calls = <<>>
    /\ curDrain = NoDrain
    /\ stopped = NoStop
    /\ iter = NoIter

\* A Logger drained by direct calls of PrintAndClearLogQueue.
Init ==
    /\ InitLogger
    /\ tPc = "NoThread"
    /\ mShouldRun = TRUE
    /\ dPc = "NoThread"

(* --------------------------- producer: Log ---------------------------- *)

\* A counter that is read but not incremented.
IncrementedSequenceNumber_Forgotten == SequenceNumber

\* ++SequenceNumber: the value the counter takes and the record is given.
IncrementedSequenceNumber == SequenceNumber + 1

\* A Log or LogFmt beginning while a drain is running makes that drain one with
\* a concurrent producer.
NoteLogStart ==
    IF cPc # "idle" THEN [curDrain EXCEPT !.clean = FALSE] ELSE curDrain

\* Log, lines 68-82: ++SequenceNumber, format into the stack record, set retVal.
LogBegin(inputData, text) ==
    /\ pPc = "idle"
    /\ Len(calls) < MaxLogCalls
    /\ SequenceNumber' = IncrementedSequenceNumber
    /\ LET f == LogFormat(inputData, text, IncrementedSequenceNumber)
       IN  cur' = [data |-> f.data, retVal |-> f.retVal,
                   inputData |-> inputData, text |-> text]
    /\ pPc' = "push"
    /\ curDrain' = NoteLogStart
    /\ UNCHANGED <<buffer, write_index, calls>>
    /\ UNCHANGED consumerVars
    /\ UNCHANGED threadVars

\* LogFmt, lines 121-137.
LogFmtBegin(inputData, text) ==
    /\ pPc = "idle"
    /\ Len(calls) < MaxLogCalls
    /\ SequenceNumber' = IncrementedSequenceNumber
    /\ LET f == LogFmtFormat(inputData, text, IncrementedSequenceNumber)
       IN  cur' = [data |-> f.data, retVal |-> f.retVal,
                   inputData |-> inputData, text |-> text]
    /\ pPc' = "push"
    /\ curDrain' = NoteLogStart
    /\ UNCHANGED <<buffer, write_index, calls>>
    /\ UNCHANGED consumerVars
    /\ UNCHANGED threadVars

\* The call returns: its outcome joins the history.
Returned(dataWasEnqueued) ==
    Append(calls, [data |-> cur.data, inputData |-> cur.inputData,
                   text |-> cur.text, enqueued |-> dataWasEnqueued,
                   status |-> LogStatus(cur.retVal, dataWasEnqueued)])

\* A push without the full test.
PushFull_Never == FALSE

\* spsc_queue::push, the full test: next == read_index_.load(acquire).
PushFull == next_index(write_index) = read_index

\* A push that waits for a free slot instead of failing.
PushRejected_Waits ==
    /\ pPc = "push"
    /\ PushFull
    /\ FALSE
    /\ UNCHANGED vars

\* mQueue.push finds no free slot; Log returns (lines 85-91).
PushRejected ==
    /\ pPc = "push"
    /\ PushFull
    /\ calls' = Returned(FALSE)
    /\ pPc' = "idle"
    /\ cur' = NoCall
    /\ UNCHANGED <<SequenceNumber, buffer, write_index, curDrain>>
    /\ UNCHANGED consumerVars
    /\ UNCHANGED threadVars

\* mQueue.push finds a free slot and goes on to construct the record in it.
PushAccepted ==
    /\ pPc = "push"
    /\ ~PushFull
    /\ pPc' = "write"
    /\ UNCHANGED <<SequenceNumber, buffer, write_index, cur, calls, curDrain>>
    /\ UNCHANGED consumerVars
    /\ UNCHANGED threadVars

\* new (buffer + write_index) T(t)
PushWrite ==
    /\ pPc = "write"
    /\ buffer' = [buffer EXCEPT ![write_index] = cur.data]
    /\ pPc' = "publish"
    /\ UNCHANGED <<SequenceNumber, write_index, cur, calls, curDrain>>
    /\ UNCHANGED consumerVars
    /\ UNCHANGED threadVars

\* write_index_.store(next, release); push returns true and Log returns.
PushPublish ==
    /\ pPc = "publish"
    /\ write_index' = next_index(write_index)
    /\ calls' = Returned(TRUE)
    /\ pPc' = "idle"
    /\ cur' = NoCall
    /\ UNCHANGED <<SequenceNumber, buffer, curDrain>>
    /\ UNCHANGED consumerVars
    /\ UNCHANGED threadVars

Producer ==
    \/ \E in \in LogInputs : LogBegin(in.inputData, Text(in.n))
    \/ \E in \in LogInputs : LogFmtBegin(in.inputData, Text(in.n))
    \/ PushRejected
    \/ PushAccepted
    \/ PushWrite
    \/ PushPublish

(* ---------------- consumer: PrintAndClearLogQueue -------------------- *)

\* PrintAndClearLogQueue is entered: numProcessed = 0 (line 169).
DrainEnter ==
    /\ cPc = "idle"
    /\ cPc' = "pop"
    /\ numProcessed' = 0
    /\ curDrain' = [calls0 |-> Len(calls), queued0 |-> read_available,
                    sink0 |-> Len(sink), seq0 |-> SequenceNumber,
                    read0 |-> read_index, write0 |-> write_index,
                    clean |-> pPc = "idle"]
    /\ value' = InternalLogData
    /\ UNCHANGED <<read_index, sink>>

\* PrintAndClearLogQueue returns numProcessed to its caller (line 177).
DrainLeave ==
    /\ cPc = "done"
    /\ cPc' = "idle"
    /\ numProcessed' = 0
    /\ curDrain' = NoDrain
    /\ value' = InternalLogData
    /\ UNCHANGED <<read_index, sink>>

\* An empty test that is the push's full test.
PopEmpty_FullTest == next_index(write_index) = read_index

\* spsc_queue::pop, the empty test: write_index_.load(acquire) == read_index.
PopEmpty == write_index = read_index

\* mQueue.pop( value ) finds the queue empty: the while loop ends (line 172).
PopNothing ==
    /\ cPc = "pop"
    /\ PopEmpty
    /\ cPc' = "done"
    /\ UNCHANGED <<read_index, value, numProcessed, sink, curDrain>>
    /\ UNCHANGED producerVars
    /\ UNCHANGED threadVars

\* mQueue.pop( value ) finds a record and goes on to copy it out.
PopAvailable ==
    /\ cPc = "pop"
    /\ ~PopEmpty
    /\ cPc' = "read"
    /\ UNCHANGED <<read_index, value, numProcessed, sink, curDrain>>
    /\ UNCHANGED producerVars
    /\ UNCHANGED threadVars

\* A pop that copies the newest record instead of the oldest.
PopSlot_Newest == (write_index + max_size - 1) % max_size

\* The slot the pop copies out.
PopSlot == read_index

\* value = buffer[read_index]; the slot's object is destroyed.
PopRead ==
    /\ cPc = "read"
    /\ value' = buffer[PopSlot]
    /\ buffer' = [buffer EXCEPT ![PopSlot] = NoRecord]
    /\ cPc' = "advance"
    /\ UNCHANGED <<read_index, numProcessed, sink, curDrain>>
    /\ UNCHANGED <<SequenceNumber, write_index, pPc, cur, calls>>
    /\ UNCHANGED threadVars

\* read_index_.store(next, release); pop returns true.
PopAdvance ==
    /\ cPc = "advance"
    /\ read_index' = next_index(read_index)
    /\ cPc' = "sink"
    /\ UNCHANGED <<value, numProcessed, sink, curDrain>>
    /\ UNCHANGED producerVars
    /\ UNCHANGED threadVars

\* An if in place of the while: one record per call.
AfterSink_Once == "done"

\* while ( mQueue.pop( value ) ): after the body the loop pops again.
AfterSink == "pop"

\* printLogFn( ... ); numProcessed++ (lines 173-174), back to the loop test.
CallSink ==
    /\ cPc = "sink"
    /\ sink' = Append(sink, SinkArgs(value))
    /\ numProcessed' = numProcessed + 1
    /\ cPc' = AfterSink
    /\ UNCHANGED <<read_index, value, curDrain>>
    /\ UNCHANGED producerVars
    /\ UNCHANGED threadVars

Drain ==
    \/ PopNothing
    \/ PopAvailable
    \/ PopRead
    \/ PopAdvance
    \/ CallSink

\* A consumer calls PrintAndClearLogQueue directly.
DrainCall ==
    /\ tPc = "NoThread"
    /\ DrainEnter
    /\ UNCHANGED producerVars
    /\ UNCHANGED threadVars

\* The direct call returns.
DrainReturn ==
    /\ tPc = "NoThread"
    /\ DrainLeave
    /\ UNCHANGED producerVars
    /\ UNCHANGED threadVars

Next ==
    \/ Producer
    \/ Drain
    \/ DrainCall
    \/ DrainReturn

Spec == Init /\ [][Next]_vars

(* -------------------- LogProcessingThread ----------------------------- *)

\* The constructor has started the thread: ThreadMain is at its loop test.
InitThread ==
    /\ InitLogger
    /\ tPc = "check"
    /\ mShouldRun = TRUE
    /\ dPc = "alive"

\* while ( mShouldRun.load() ) holds: the body calls PrintAndClearLogQueue (line 74).
ThreadLoopEnter ==
    /\ tPc = "check"
    /\ mShouldRun
    /\ tPc' = "loopDrain"
    /\ DrainEnter
    /\ stopped' = [stopped EXCEPT !.looped = TRUE]
    /\ iter' = [drains |-> 1, sleeps |-> 0, found |-> FALSE]
    /\ UNCHANGED <<mShouldRun, dPc>>
    /\ UNCHANGED producerVars

\* A loop body that sleeps the same whatever the drain returned.
ThreadLoopDrained_FixedSleep ==
    /\ tPc = "loopDrain"
    /\ tPc' = "sleep"
    /\ iter' = [iter EXCEPT !.found = numProcessed # 0]
    /\ DrainLeave
    /\ UNCHANGED <<mShouldRun, stopped, dPc>>
    /\ UNCHANGED producerVars

\* The drain of the loop body returned: sleep once more when it found nothing
\* (lines 74-76).
ThreadLoopDrained ==
    /\ tPc = "loopDrain"
    /\ tPc' = IF numProcessed = 0 THEN "sleepEmpty" ELSE "sleep"
    /\ iter' = [iter EXCEPT !.found = numProcessed # 0]
    /\ DrainLeave
    /\ UNCHANGED <<mShouldRun, stopped, dPc>>
    /\ UNCHANGED producerVars

\* std::this_thread::sleep_for( mWaitTime ) of the empty case (line 75).
SleepEmpty ==
    /\ tPc = "sleepEmpty"
    /\ tPc' = "sleep"
    /\ iter' = [iter EXCEPT !.sleeps = @ + 1]
    /\ UNCHANGED <<mShouldRun, stopped, curDrain, dPc>>
    /\ UNCHANGED producerVars
    /\ UNCHANGED consumerVars

\* std::this_thread::sleep_for( mWaitTime ) of every iteration (line 78).
Sleep ==
    /\ tPc = "sleep"
    /\ tPc' = "check"
    /\ iter' = [iter EXCEPT !.sleeps = @ + 1]
    /\ UNCHANGED <<mShouldRun, stopped, curDrain, dPc>>
    /\ UNCHANGED producerVars
    /\ UNCHANGED consumerVars

\* A ThreadMain that returns as soon as the loop test fails.
ThreadLoopExit_NoFlush ==
    /\ tPc = "check"
    /\ ~mShouldRun
    /\ tPc' = "Stopped"
    /\ iter' = NoIter
    /\ UNCHANGED <<mShouldRun, stopped, curDrain, dPc>>
    /\ UNCHANGED producerVars
    /\ UNCHANGED consumerVars

\* The loop test fails: the last PrintAndClearLogQueue is called (line 81).
ThreadLoopExit ==
    /\ tPc = "check"
    /\ ~mShouldRun
    /\ tPc' = "finalDrain"
    /\ DrainEnter
    /\ iter' = [drains |-> 1, sleeps |-> 0, found |-> FALSE]
    /\ UNCHANGED <<mShouldRun, stopped, dPc>>
    /\ UNCHANGED producerVars

\* The last drain returned: ThreadMain returns.
ThreadExit ==
    /\ tPc = "finalDrain"
    /\ tPc' = "Stopped"
    /\ DrainLeave
    /\ UNCHANGED <<mShouldRun, stopped, iter, dPc>>
    /\ UNCHANGED producerVars

\* A Stop that flips the flag instead of clearing it.
Stop_Toggles ==
    /\ dPc = "alive"
    /\ mShouldRun' = ~mShouldRun
    /\ stopped' = IF stopped.called THEN stopped
                  ELSE [stopped EXCEPT !.called = TRUE, !.pushed = Len(Pushed)]
    /\ UNCHANGED <<tPc, curDrain, iter, dPc>>
    /\ UNCHANGED producerVars
    /\ UNCHANGED consumerVars

\* LogProcessingThread::Stop, from the owner's thread, at any time and any
\* number of times.
Stop ==
    /\ dPc = "alive"
    /\ mShouldRun' = FALSE
    /\ stopped' = IF stopped.called THEN stopped
                  ELSE [stopped EXCEPT !.called = TRUE, !.pushed = Len(Pushed)]
    /\ UNCHANGED <<tPc, curDrain, iter, dPc>>
    /\ UNCHANGED producerVars
    /\ UNCHANGED consumerVars

ThreadMain ==
    \/ ThreadLoopEnter
    \/ ThreadLoopDrained
    \/ SleepEmpty
    \/ Sleep
    \/ ThreadLoopExit
    \/ ThreadExit

NextThread ==
    \/ Producer
    \/ Drain
    \/ ThreadMain
    \/ Stop

SpecThread == InitThread /\ [][NextThread]_vars

(* ------------------- ~LogProcessingThread ----------------------------- *)

\* The destructor finds the thread joinable and calls Stop() (lines 52-53).
DestructorStop ==
    /\ dPc = "alive"
    /\ mShouldRun' = FALSE
    /\ stopped' = IF stopped.called THEN stopped
                  ELSE [stopped EXCEPT !.called = TRUE, !.pushed = Len(Pushed)]
    /\ dPc' = "joining"
    /\ UNCHANGED <<tPc, curDrain, iter>>
    /\ UNCHANGED producerVars
    /\ UNCHANGED consumerVars

\* A destructor that lets go of the thread without waiting for it.
DestructorJoin_Detached ==
    /\ dPc = "joining"
    /\ dPc' = "destroyed"
    /\ UNCHANGED <<tPc, mShouldRun, stopped, iter, curDrain>>
    /\ UNCHANGED producerVars
    /\ UNCHANGED consumerVars

\* mThread.join() returns once ThreadMain has returned (line 54); the
\* destructor returns.
DestructorJoin ==
    /\ dPc = "joining"
    /\ tPc = "Stopped"
    /\ dPc' = "destroyed"
    /\ UNCHANGED <<tPc, mShouldRun, stopped, iter, curDrain>>
    /\ UNCHANGED producerVars
    /\ UNCHANGED consumerVars

\* What the producer logs while the scheduler is destroyed: one message that fits.
LogInputsDestroy == {in \in LogInputs : in.n = MaxMessageLength - 1}

ProducerDestroy ==
    \/ \E in \in LogInputsDestroy : LogBegin(in.inputData, Text(in.n))
    \/ PushRejected
    \/ PushAccepted
    \/ PushWrite
    \/ PushPublish

NextDestroy ==
    \/ ProducerDestroy
    \/ Drain
    \/ ThreadMain
    \/ Stop
    \/ DestructorStop
    \/ DestructorJoin

\* The background thread is scheduled fairly and the sink always returns; join
\* returns once the thread has exited.
SpecDestroy ==
    /\ InitThread
    /\ [][NextDestroy]_vars
    /\ WF_vars(ThreadMain \/ Drain)
    /\ WF_vars(DestructorJoin)

(* ------------------------------ claims -------------------------------- *)

\* What the sink is handed for each record of a sequence of records.
Delivered(recs) == [k \in 1..Len(recs) |-> SinkArgs(recs[k])]

\* C1: under every interleaving of the producer's Log and the consumer's
\* PrintAndClearLogQueue, what the sink has been handed so far is a prefix of
\* the successfully pushed records, in push order.
C1_FifoPrefix ==
    /\ Len(sink) <= Len(Pushed)
    /\ sink = SubSeq(Delivered(Pushed), 1, Len(sink))

\* Three records delivered over drains that ran while the producer was writing.
C1_Witness ==
    /\ Len(sink) = 3
    /\ sink[1].mSequenceNumber < sink[2].mSequenceNumber
    /\ sink[2].mSequenceNumber < sink[3].mSequenceNumber
    /\ ~curDrain.clean
    /\ curDrain.sink0 > 0
    /\ cPc = "done"

\* A drain that was called with the producer idle and saw no Log begin since:
\* it has run its loop to the end and is about to return numProcessed.
DrainDoneAlone == cPc = "done" /\ curDrain.clean

\* The finished calls that did not return Error_QueueFull.
NotRejected == {k \in 1..Len(calls) : calls[k].status # Error_QueueFull}

\* C2: after a sequence of Log calls by the one producer, a drain that runs to
\* completion with nothing delivered before it hands the sink records whose
\* sequence numbers strictly increase in pop order, and returns the number of
\* Log calls that did not return Error_QueueFull.
C2_FullDrain ==
    (DrainDoneAlone /\ curDrain.sink0 = 0) =>
        /\ \A i, j \in 1..Len(sink) :
              i < j => sink[i].mSequenceNumber < sink[j].mSequenceNumber
        /\ numProcessed = Cardinality(NotRejected)

\* Three Log calls, the third rejected, then one drain that returned 2.
C2_Witness ==
    /\ DrainDoneAlone
    /\ curDrain.sink0 = 0
    /\ Len(calls) = 3
    /\ calls[3].status = Error_QueueFull
    /\ numProcessed = 2
    /\ Len(sink) = 2

\* The producer is at the full test of its push and the queue holds
\* MaxNumMessages records.
AtPushOfFullQueue == pPc = "push" /\ read_available = MaxNumMessages

\* The sequence numbers the sink has been handed.
DeliveredNumbers == {sink[k].mSequenceNumber : k \in 1..Len(sink)}

\* C3: a Log whose push finds MaxNumMessages records queued returns
\* Error_QueueFull and leaves the slots, the indices and so the queue's contents
\* as they were; a record whose Log returned Error_QueueFull is never handed to
\* the sink.
C3_RejectedWhenFull ==
    /\ [][(AtPushOfFullQueue /\ pPc' # pPc) =>
            /\ Len(calls') = Len(calls) + 1
            /\ calls'[Len(calls')].status = Error_QueueFull
            /\ calls'[Len(calls')].data = cur.data
            /\ buffer' = buffer
            /\ write_index' = write_index
            /\ read_index' = read_index
            /\ QueueContents' = QueueContents]_vars
    /\ [](\A k \in 1..Len(calls) :
            calls[k].status = Error_QueueFull =>
                calls[k].data.mSequenceNumber \notin DeliveredNumbers)

\* A call was rejected by a full queue, and the queue has since been drained empty.
C3_Witness ==
    /\ Len(calls) = 3
    /\ calls[3].status = Error_QueueFull
    /\ Len(sink) = MaxNumMessages
    /\ read_available = 0
    /\ cPc = "done"

\* C4: a Log call returns Error_QueueFull exactly when its record was not
\* enqueued (the write index did not move), whether or not the text fitted; so
\* a call that truncates and finds the queue full returns Error_QueueFull.
C4_QueueFullIffNotEnqueued ==
    [][Len(calls') = Len(calls) + 1 =>
        /\ (calls'[Len(calls')].status = Error_QueueFull)
              <=> (write_index' = write_index)
        /\ (cur.retVal = Error_MessageTruncated /\ write_index' = write_index)
              => calls'[Len(calls')].status = Error_QueueFull]_vars

\* A call whose text did not fit found the queue full and returned Error_QueueFull.
C4_Witness ==
    \E k \in 1..Len(calls) :
        /\ Len(calls[k].text) >= MaxMessageLength
        /\ calls[k].status = Error_QueueFull
        /\ ~calls[k].enqueued

\* The sink entries that carry the sequence number of finished call k.
DeliveriesOf(k) ==
    {i \in 1..Len(sink) : sink[i].mSequenceNumber = calls[k].data.mSequenceNumber}

\* The finished call k's record is still queued.
Queued(k) == \E i \in 1..read_available : QueueContents[i] = calls[k].data

\* The finished call k's record is being popped: copied out or about to be.
InPop(k) ==
    \/ cPc = "read" /\ buffer[read_index] = calls[k].data
    \/ cPc \in {"advance", "sink"} /\ value = calls[k].data

\* The first n characters of a text.
Prefix(text, n) == SubSeq(text, 1, Min(n, Len(text)))

\* C5: a Log whose formatted text does not fit in MaxMessageLength characters
\* and whose push found a free slot returns Error_MessageTruncated; its record
\* is enqueued holding the first MaxMessageLength - 1 characters and the
\* terminator, and that is the text the sink is handed for it.
C5_TruncatedStillDelivered ==
    \A k \in 1..Len(calls) :
        (Len(calls[k].text) >= MaxMessageLength /\ calls[k].enqueued) =>
            /\ calls[k].status = Error_MessageTruncated
            /\ calls[k].data.mMessage =
                 Prefix(calls[k].text, MaxMessageLength - 1) \o <<0>>
            /\ Queued(k) \/ InPop(k) \/ DeliveriesOf(k) # {}
            /\ \A i \in DeliveriesOf(k) :
                  /\ sink[i].text = Prefix(calls[k].text, MaxMessageLength - 1)
                  /\ Len(sink[i].text) = MaxMessageLength - 1
                  /\ sink[i].mLogData = calls[k].inputData

\* A text two characters too long and one exactly one too long have both been
\* delivered, truncated.
C5_Witness ==
    /\ \E k \in 1..Len(calls) :
          /\ Len(calls[k].text) = MaxMessageLength + 1
          /\ calls[k].status = Error_MessageTruncated
          /\ DeliveriesOf(k) # {}
    /\ \E k \in 1..Len(calls) :
          /\ Len(calls[k].text) = MaxMessageLength
          /\ calls[k].status = Error_MessageTruncated
          /\ DeliveriesOf(k) # {}

\* C6: a Log whose formatted text is shorter than MaxMessageLength - 1 and
\* whose push found a free slot returns Success, and the sink is handed the
\* logged text and the logged LogData unchanged.
C6_RoundTrip ==
    \A k \in 1..Len(calls) :
        (Len(calls[k].text) < MaxMessageLength - 1 /\ calls[k].enqueued) =>
            /\ calls[k].status = Success
            /\ Queued(k) \/ InPop(k) \/ DeliveriesOf(k) # {}
            /\ \A i \in DeliveriesOf(k) :
                  /\ sink[i].text = calls[k].text
                  /\ sink[i].mLogData = calls[k].inputData

\* A short, non-empty text has gone through the queue to the sink.
C6_Witness ==
    \E k \in 1..Len(calls) :
        /\ Len(calls[k].text) < MaxMessageLength - 1
        /\ Len(calls[k].text) > 0
        /\ calls[k].inputData # InternalLogData.mLogData
        /\ calls[k].status = Success
        /\ DeliveriesOf(k) # {}

\* The Log / LogFmt calls begun so far.
CallsBegun == Len(calls) + (IF pPc = "idle" THEN 0 ELSE 1)

\* C7: the counter, which starts at 0, always equals the number of Log calls
\* begun: every call adds one to it, whether it then returns Success,
\* Error_MessageTruncated or Error_QueueFull, and no step of a drain changes it;
\* the k-th call's record carries the number k.
C7_CounterCountsCalls ==
    /\ SequenceNumber = CallsBegun
    /\ \A k \in 1..Len(calls) : calls[k].data.mSequenceNumber = k
    /\ pPc # "idle" => cur.data.mSequenceNumber = SequenceNumber

\* Three calls with the three outcomes, and drains in between.
C7_Witness ==
    /\ Len(calls) = 3
    /\ {calls[k].status : k \in 1..3} =
          {Success, Error_MessageTruncated, Error_QueueFull}
    /\ SequenceNumber = 3
    /\ Len(sink) = 2

\* C8: a drain called on an empty queue, with no Log running meanwhile,
\* returns 0, has not called the sink, and leaves the queue's indices and
\* slots and the sequence counter as they were.
C8_EmptyDrain ==
    (DrainDoneAlone /\ curDrain.queued0 = 0) =>
        /\ numProcessed = 0
        /\ Len(sink) = curDrain.sink0
        /\ read_index = curDrain.read0
        /\ write_index = curDrain.write0
        /\ read_available = 0
        /\ \A i \in 0..MaxNumMessages : buffer[i] = NoRecord
        /\ SequenceNumber = curDrain.seq0

\* A drain of an empty queue that earlier drains have emptied.
C8_Witness ==
    /\ DrainDoneAlone
    /\ curDrain.queued0 = 0
    /\ curDrain.sink0 = 2
    /\ numProcessed = 0
    /\ curDrain.read0 # 0

\* C9: when a drain has finished its loop, the value it returns is the number
\* of sink calls it made; if no Log ran meanwhile, that is the number of records
\* queued when it was called, and the queue is empty.
C9_DrainCount ==
    cPc = "done" =>
        /\ numProcessed = Len(sink) - curDrain.sink0
        /\ curDrain.clean =>
              /\ numProcessed = curDrain.queued0
              /\ read_available = 0
              /\ write_index = read_index

\* A drain called on a full queue with the producer idle, after earlier
\* deliveries, has popped every queued record and is about to return their number.
C9_Witness ==
    /\ cPc = "done"
    /\ curDrain.clean
    /\ curDrain.queued0 = MaxNumMessages
    /\ numProcessed = MaxNumMessages
    /\ curDrain.sink0 > 0

\* What was pushed when Stop() was first called.
PushedBeforeStop == SubSeq(Pushed, 1, stopped.pushed)

\* C10: when ThreadMain has returned, every record whose Log succeeded before
\* the first Stop() has been handed to the sink.
C10_TerminalFlush ==
    tPc = "Stopped" =>
        /\ stopped.called
        /\ Len(sink) >= stopped.pushed
        /\ SubSeq(sink, 1, stopped.pushed) = Delivered(PushedBeforeStop)

\* Two records were pushed and Stop() called before the loop body ever ran;
\* the thread has exited and the sink holds both.
C10_Witness ==
    /\ tPc = "Stopped"
    /\ stopped.pushed = 2
    /\ ~stopped.looped
    /\ Len(sink) >= 2

\* The scheduler's lifecycle state, read off the flag and the thread.
Lifecycle ==
    IF tPc = "Stopped" THEN "Stopped"
    ELSE IF mShouldRun THEN "Running" ELSE "Stopping"

\* C11: the scheduler is Running from construction; it leaves Running only by
\* a step that clears mShouldRun and changes nothing else (Stop), and then is
\* Stopping; from Stopping it can only go on to Stopped; Stopped is never left
\* and the flag, once cleared, is never set again.
C11_Lifecycle ==
    /\ Lifecycle = "Running"
    /\ [][/\ Lifecycle = "Running" => Lifecycle' \in {"Running", "Stopping"}
          /\ (Lifecycle = "Running" /\ Lifecycle' = "Stopping") =>
                /\ stopped'.called
                /\ UNCHANGED <<tPc, cPc, iter, sink, read_index, write_index,
                               buffer, SequenceNumber, calls>>
          /\ Lifecycle = "Stopping" => Lifecycle' \in {"Stopping", "Stopped"}
          /\ Lifecycle = "Stopped" => Lifecycle' = "Stopped"
          /\ ~mShouldRun => ~mShouldRun']_vars

\* The thread ran its loop body, delivered records, was stopped and has exited.
C11_Witness ==
    /\ Lifecycle = "Stopped"
    /\ stopped.called
    /\ stopped.looped
    /\ Len(sink) > 0

LogStepsLeft(pc) ==
    CASE pc = "push" -> 3
      [] pc = "write" -> 2
      [] pc = "publish" -> 1
      [] OTHER -> 0

\* The producer's next step of the call in flight.
LogStep == PushRejected \/ PushAccepted \/ PushWrite \/ PushPublish

\* C13: in every state with a Log call in flight, whatever the consumer is
\* doing, the producer's next step is enabled, and every producer step brings
\* the call nearer to its return (at most four steps from call to return); a
\* push that finds no free slot returns Error_QueueFull at once.  A drain in
\* its loop always has its next step enabled whatever the producer is doing,
\* and a pop that finds the queue empty ends the drain.
C13_NeverWaits ==
    /\ [](pPc # "idle" => ENABLED LogStep)
    /\ [][(pPc # "idle" /\ pPc' # pPc) =>
             LogStepsLeft(pPc') < LogStepsLeft(pPc)]_vars
    /\ [][(pPc = "push" /\ PushFull /\ pPc' # pPc) =>
             (pPc' = "idle" /\ calls'[Len(calls')].status = Error_QueueFull)]_vars
    /\ [](cPc \in {"pop", "read", "advance", "sink"} => ENABLED Drain)
    /\ [][(cPc = "pop" /\ PopEmpty /\ cPc' # cPc) => cPc' = "done"]_vars

\* A Log at its push finds the queue full while the consumer is in the middle
\* of a pop that it has not finished.
C13_Witness ==
    /\ pPc = "push"
    /\ PushFull
    /\ cPc = "advance"

\* The slot holds a record whose push has completed (its index store included).
Published(i) ==
    \E k \in 1..Len(calls) : calls[k].enqueued /\ calls[k].data = buffer[i]

\* The consumer is between the empty test of a pop and its index store: it is
\* using slot read_index.
PopInSlot == cPc \in {"read", "advance"}

\* The producer is between the full test of a push and its index store: it is
\* using slot write_index.
PushInSlot == pPc \in {"write", "publish"}

IterationDone == tPc = "check" /\ iter.drains = 1

AfterStopObserved ==
    /\ (tPc = "check" /\ ~mShouldRun /\ tPc' # tPc)
           => (tPc' = "finalDrain" /\ cPc' = "pop" /\ iter'.sleeps = 0)
    /\ tPc = "finalDrain"
           => /\ tPc' \in {"finalDrain", "Stopped"}
              /\ cPc # "idle"
              /\ cPc' = "idle" <=> tPc' = "Stopped"
              /\ iter' = iter
    /\ tPc = "Stopped"
           => /\ tPc' = "Stopped"
              /\ cPc' = "idle"
              /\ sink' = sink
              /\ read_index' = read_index
              /\ read_available' >= read_available

\* C16: once the loop test has read the stop flag as cleared, ThreadMain makes
\* exactly one more drain call and returns without sleeping; once it has
\* returned there is no further drain and no further sink call, so a record
\* logged after the last drain stays in the queue.
C16_OneFinalDrain ==
    /\ [](tPc \in {"finalDrain", "Stopped"} => (iter.drains = 1 /\ iter.sleeps = 0))
    /\ [](tPc = "Stopped" => cPc = "idle")
    /\ [][AfterStopObserved]_vars

\* The thread has stopped after delivering records, and a record pushed after
\* its last drain is still in the queue.
C16_Witness ==
    /\ tPc = "Stopped"
    /\ Len(sink) > 0
    /\ read_available > 0
    /\ pPc = "idle"
    /\ Len(calls) = MaxLogCalls

\* The records the consumer has taken out of the queue: those the sink has
\* seen and the one a drain holds between its pop and its sink call.
Popped == Len(sink) + (IF cPc = "sink" THEN 1 ELSE 0)

\* The unconsumed records, counted from the history of the calls rather than
\* from the indices.
Held == Len(Pushed) - Popped

\* What C17 says of single steps of a Log call at its push.
PushWithRoom ==
    /\ (pPc = "push" /\ Held < MaxNumMessages)
           => (pPc' \in {"push", "write"} /\ Held' < MaxNumMessages)
    /\ (pPc \in {"write", "publish"} /\ pPc' = "idle")
           => (calls'[Len(calls')].enqueued
               /\ calls'[Len(calls')].status # Error_QueueFull)
    /\ (pPc = "push" /\ pPc' = "idle")
           => (Held = MaxNumMessages
               /\ calls'[Len(calls')].status = Error_QueueFull)

\* C17: the queue never holds fewer than 0 or more than MaxNumMessages
\* unconsumed records, and a Log call that reaches its push while fewer than
\* MaxNumMessages are held is enqueued instead of returning Error_QueueFull.
C17_Capacity ==
    /\ [](Held \in 0..MaxNumMessages /\ Held = read_available)
    /\ [][PushWithRoom]_vars

\* The queue is filled to its capacity again after a drain made room: the last
\* call found MaxNumMessages - 1 records held and was enqueued.
C17_Witness ==
    /\ Held = MaxNumMessages
    /\ Len(sink) > 0
    /\ pPc = "idle"
    /\ \A k \in 1..Len(calls) : calls[k].enqueued

\* The finished calls whose record was enqueued: those that returned Success
\* or Error_MessageTruncated.
Accepted == {k \in 1..Len(calls) : calls[k].enqueued}

\* The place of accepted call k in the push order.
PushOrder(k) == Cardinality({j \in Accepted : j <= k})

\* The accepted call k's record is in the queue: the consumer's read index has
\* not passed it.
InQueue(k) == PushOrder(k) > Popped

\* The accepted call k's record has left the queue and the running drain is
\* about to hand it to the sink.
HeldByDrain(k) == cPc = "sink" /\ value = calls[k].data

\* C18, as claimed: in every reachable state each accepted record is either
\* still in the queue or has been passed to the sink exactly once, and none is
\* passed twice.
C18_ExactlyOnce ==
    \A k \in Accepted :
        /\ InQueue(k) \/ Cardinality(DeliveriesOf(k)) = 1
        /\ Cardinality(DeliveriesOf(k)) <= 1

\* C18, amended: in every reachable state each accepted record is in exactly
\* one of three places: still in the queue, held by the running drain between
\* its pop and its sink call, or passed to the sink exactly once; the sink is
\* handed nothing but accepted records.
C18_ExactlyOnceOrHeld ==
    /\ \A k \in Accepted :
          /\ Cardinality(DeliveriesOf(k)) <= 1
          /\ InQueue(k) => (~HeldByDrain(k) /\ DeliveriesOf(k) = {})
          /\ HeldByDrain(k) => DeliveriesOf(k) = {}
          /\ InQueue(k) \/ HeldByDrain(k) \/ Cardinality(DeliveriesOf(k)) = 1
          /\ InQueue(k) => (Queued(k) \/ (cPc = "advance" /\ value = calls[k].data))
    /\ \A i \in 1..Len(sink) :
          \E k \in Accepted : sink[i] = SinkArgs(calls[k].data)

\* One record has been delivered, the next is held by the drain between its
\* pop and its sink call, and a third is still queued.
C18_Witness ==
    /\ Cardinality(Accepted) = MaxLogCalls
    /\ \E k \in Accepted : Cardinality(DeliveriesOf(k)) = 1
    /\ \E k \in Accepted : HeldByDrain(k)
    /\ \E k \in Accepted : InQueue(k)

FullyDrained == pPc = "idle" /\ read_available = 0 /\ cPc # "sink"

\* The sequence numbers handed out so far that the sink has not been handed.
Gaps == (1..SequenceNumber) \ DeliveredNumbers

\* The sequence numbers of the calls that returned Error_QueueFull.
DroppedNumbers ==
    {calls[k].data.mSequenceNumber :
        k \in {j \in 1..Len(calls) : calls[j].status = Error_QueueFull}}

====
